---- MODULE Spec2Model ----
(***************************************************************************)
(* A model of treestruct (Python 2: map() is eager and returns a list).    *)
(*                                                                         *)
(* The heap is three sequences indexed by node identity (1..Len(data)):    *)
(* parents[n] and children[n] are the `items` sets of the two NodeSets of  *)
(* node n, data[n] is its payload.  A heap value h is the record           *)
(* [parents, children, data]; every operation of the library is an         *)
(* operator from heaps to heaps, and every action of a specification       *)
(* applies one whole operation.                                            *)
(***************************************************************************)
EXTENDS Integers, Sequences, FiniteSets, TLC

VARIABLES parents, children, data, last, run, result

vars == <<parents, children, data, last, run, result>>

\* treestruct/__init__.py: the two direction tags, and the default
\* `direction=None` of delete / gather_nodes / flatten.
FORWARD == 1
BACKWARD == -1
None == 0

\* Bounds of the model.
MaxNodes == 3
MaxEdges == 3
GraphEdges == 4
MaxArgs == 2
QueryNodes == 4
QueryEdges == 4
CopyNodes == 3
CopyEdges == 3

Directions == {FORWARD, BACKWARD}

----------------------------------------------------------------------------
(* Generic helpers *)

Range(s) == {s[i] : i \in DOMAIN s}

\* list(S) / tuple(S) / iteration over a Python set: any order.
ListsOf(S) ==
    {s \in [1..Cardinality(S) -> S] : \A i, j \in 1..Cardinality(S) : s[i] = s[j] => i = j}

\* Argument lists a caller passes: distinct nodes of S, at most MaxArgs of them.
ArgLists(S) == UNION {ListsOf(T) : T \in {U \in SUBSET S : Cardinality(U) <= MaxArgs}}

RECURSIVE SumCard(_, _)
SumCard(f, D) ==
    IF D = {} THEN 0
    ELSE LET n == CHOOSE x \in D : TRUE IN Cardinality(f[n]) + SumCard(f, D \ {n})

Heap == [parents |-> parents, children |-> children, data |-> data]
NodesOf(h) == DOMAIN h.data
Nodes == NodesOf(Heap)
EdgeCount(h) == SumCard(h.children, NodesOf(h))

----------------------------------------------------------------------------
(* Node / NodeSet *)

\* Node.direction: the items of the NodeSet of n in direction d.
direction(h, n, d) == IF d = BACKWARD THEN h.parents[n] ELSE h.children[n]

\* Assignment to the `items` of the NodeSet of n in direction d.
set_items(h, n, d, S) ==
    IF d = BACKWARD THEN [h EXCEPT !.parents[n] = S] ELSE [h EXCEPT !.children[n] = S]

\* Mutant of add: the reciprocal insertion is forgotten.
add_one_sided(h, owner, d, value) ==
    set_items(h, owner, d, direction(h, owner, d) \cup {value})

\* NodeSet.add on the NodeSet (owner, d).
add(h, owner, d, value) ==
    LET h1 == IF value \notin direction(h, owner, d)
              THEN set_items(h, value, d * (-1), direction(h, value, d * (-1)) \cup {owner})
              ELSE h
    IN  set_items(h1, owner, d, direction(h1, owner, d) \cup {value})

\* NodeSet.discard on the NodeSet (owner, d).
discard(h, owner, d, value) ==
    LET h1 == IF value \in direction(h, owner, d)
              THEN set_items(h, value, d * (-1), direction(h, value, d * (-1)) \ {owner})
              ELSE h
    IN  set_items(h1, owner, d, direction(h1, owner, d) \ {value})

\* NodeSet.update: map(self.add, s), left to right.
RECURSIVE update(_, _, _, _)
update(h, owner, d, s) ==
    IF s = <<>> THEN h ELSE update(add(h, owner, d, Head(s)), owner, d, Tail(s))

\* NodeSet.discard_many: map(self.discard, s), left to right.
RECURSIVE discard_many(_, _, _, _)
discard_many(h, owner, d, s) ==
    IF s = <<>> THEN h ELSE discard_many(discard(h, owner, d, Head(s)), owner, d, Tail(s))

\* Node.__init__: a new identity, its parents NodeSet filled first, then its
\* children NodeSet, then the payload.  Returns the heap and the new node.
Node_init(h, dta, ps, cs) ==
    LET n  == Len(h.data) + 1
        h0 == [parents  |-> Append(h.parents, {}),
               children |-> Append(h.children, {}),
               data     |-> Append(h.data, dta)]
        h1 == update(h0, n, BACKWARD, ps)
        h2 == update(h1, n, FORWARD, cs)
    IN  [heap |-> h2, node |-> n]

----------------------------------------------------------------------------
(* delete *)

\* for parent in <ps>: parent.children.discard(node)
RECURSIVE delete_parents(_, _, _)
delete_parents(h, node, ps) ==
    IF ps = <<>> THEN h
    ELSE delete_parents(discard(h, Head(ps), FORWARD, node), node, Tail(ps))

\* Mutant of delete_node_relationships: the forward half is skipped when no
\* direction is given.
delete_backward_only(h, node, d) ==
    IF d \in {None, BACKWARD}
    THEN {delete_parents(h, node, ps) : ps \in ListsOf(h.parents[node])}
    ELSE {discard_many(h, node, FORWARD, cs) : cs \in ListsOf(h.children[node])}

\* helpers.delete_node_relationships: the heaps it can leave (one per
\* iteration order of the two tuple() snapshots).
delete_node_relationships(h, node, d) ==
    LET after_parents ==
            IF d \in {None, BACKWARD}
            THEN {delete_parents(h, node, ps) : ps \in ListsOf(h.parents[node])}
            ELSE {h}
    IN  IF d \in {None, FORWARD}
        THEN UNION {{discard_many(h1, node, FORWARD, cs) : cs \in ListsOf(h1.children[node])}
                    : h1 \in after_parents}
        ELSE after_parents

-----------------------------------------------------------------------

----------------------------------------------------------------------------
(* Traversal primitives *)

\* What one callback invocation can do: return after its effect, raise
\* StopIteration before its effect, or raise it after its effect.
Outcomes(r) == IF r.cancel THEN {"return", "stop_before", "stop_after"} ELSE {"return"}

\* Mutant of invoke: a StopIteration is swallowed and the loop goes on.
invoke_and_continue(r, call, outcome) ==
    LET r1 == [r EXCEPT !.calls = Append(@, call)]
        r2 == IF outcome = "stop_before" THEN r1 ELSE [r1 EXCEPT !.obj = Append(@, call)]
    IN  IF outcome = "return" THEN r2 ELSE [r2 EXCEPT !.raised = outcome]

\* callback(...) inside try / except StopIteration: pass / return obj.
invoke(r, call, outcome) ==
    LET r1 == [r EXCEPT !.calls = Append(@, call)]
        r2 == IF outcome = "stop_before" THEN r1 ELSE [r1 EXCEPT !.obj = Append(@, call)]
    IN  IF outcome = "return" THEN r2 ELSE [r2 EXCEPT !.pc = "done", !.raised = outcome]

\* The local state of _traverse / walk_links_for_node before the loop.
start_run(fn, node, pop_idx, d, cancel) ==
    [pc |-> "run", fn |-> fn, pop_idx |-> pop_idx, direction |-> d, start |-> node,
     struct |-> <<node>>, visited |-> {}, calls |-> <<>>, obj |-> <<>>,
     raised |-> "none", error |-> "none", cancel |-> cancel]

\* list.pop(pop_idx) for pop_idx in {-1, 0}: the index removed.
pop_at(r) == IF r.pop_idx = -1 THEN Len(r.struct) ELSE 1

without(s, i) == SubSeq(s, 1, i - 1) \o SubSeq(s, i + 1, Len(s))

\* Mutant of traverse_iter: the callback runs before the visited test.
traverse_iter_call_first(h, r) ==
    LET node == r.struct[pop_at(r)]
        rest == without(r.struct, pop_at(r))
    IN  IF node \in r.visited
        THEN {invoke([r EXCEPT !.struct = rest], node, o) : o \in Outcomes(r)}
        ELSE UNION {{invoke([r EXCEPT !.struct = rest \o nb, !.visited = @ \cup {node}], node, o)
                        : o \in Outcomes(r)}
                    : nb \in ListsOf(direction(h, node, r.direction))}

\* One iteration of the loop of _traverse (struct is not empty).
traverse_iter(h, r) ==
    LET node == r.struct[pop_at(r)]
        rest == without(r.struct, pop_at(r))
    IN  IF node \in r.visited
        THEN {[r EXCEPT !.struct = rest]}
        ELSE UNION {{invoke([r EXCEPT !.struct = rest \o nb, !.visited = @ \cup {node}], node, o)
                        : o \in Outcomes(r)}
                    : nb \in ListsOf(direction(h, node, r.direction))}

\* Mutant of walk_links_inner: neighbours already visited are skipped.
RECURSIVE walk_links_inner_skip(_, _, _)
walk_links_inner_skip(r, node, nb) ==
    IF nb = <<>> \/ r.pc = "done" THEN {r}
    ELSE IF Head(nb) \in r.visited THEN walk_links_inner_skip(r, node, Tail(nb))
    ELSE UNION {walk_links_inner_skip(
                    LET r1 == invoke(r, <<node, Head(nb)>>, o)
                    IN  IF r1.pc = "done" THEN r1 ELSE [r1 EXCEPT !.struct = Append(@, Head(nb))],
                    node, Tail(nb))
                : o \in Outcomes(r)}

\* for connected_node in <nb>: callback(node, connected_node, obj);
\* queue.append(connected_node)
RECURSIVE walk_links_inner(_, _, _)
walk_links_inner(r, node, nb) ==
    IF nb = <<>> \/ r.pc = "done" THEN {r}
    ELSE UNION {walk_links_inner(
                    LET r1 == invoke(r, <<node, Head(nb)>>, o)
                    IN  IF r1.pc = "done" THEN r1 ELSE [r1 EXCEPT !.struct = Append(@, Head(nb))],
                    node, Tail(nb))
                : o \in Outcomes(r)}

\* One iteration of the outer loop of walk_links_for_node.
walk_links_iter(h, r) ==
    LET node == r.struct[1]
        rest == Tail(r.struct)
    IN  IF node \in r.visited
        THEN {[r EXCEPT !.struct = rest]}
        ELSE UNION {walk_links_inner([r EXCEPT !.struct = rest, !.visited = @ \cup {node}], node, nb)
                    : nb \in ListsOf(direction(h, node, r.direction))}

\* `while struct:` is false: return obj.
loop_exit(r) == [r EXCEPT !.pc = "done"]

\* _traverse run to its return: every final local state it can end in.
RECURSIVE traverse_runs(_, _)
traverse_runs(h, r) ==
    IF r.pc = "done" THEN {r}
    ELSE IF r.struct = <<>> THEN {loop_exit(r)}
    ELSE UNION {traverse_runs(h, r2) : r2 \in traverse_iter(h, r)}

\* depth_first_traversal_for_node with the callback `lambda n, l: l.append(n)`
\* (or l.add(n)): the visit orders it can return.
depth_first_traversal_for_node(h, node, d) ==
    {f.obj : f \in traverse_runs(h, start_run("traverse", node, -1, d, FALSE))}

----------------------------------------------------------------------------
(* Derived queries *)

\* helpers._absolutes: the sets it can return (one per visit order).
absolutes(h, node, d) ==
    {{n \in Range(o) : direction(h, n, d) = {}} : o \in depth_first_traversal_for_node(h, node, d)}

roots_for_node(h, node) == absolutes(h, node, BACKWARD)

leaves_for_node(h, node) == absolutes(h, node, FORWARD)

\* for start_point in <sps>: start_point.depth_first_traversal(o.add, d, nodes)
RECURSIVE gather_loop(_, _, _, _)
gather_loop(h, sps, d, nodes) ==
    IF sps = <<>> THEN {nodes}
    ELSE UNION {gather_loop(h, Tail(sps), d, nodes \cup Range(o))
                : o \in depth_first_traversal_for_node(h, Head(sps), d)}

\* helpers.gather_nodes: the sets it can return.
gather_nodes(h, node, d) ==
    LET start_points == IF d = None
                        THEN UNION {ListsOf(R) : R \in roots_for_node(h, node)}
                        ELSE {<<node>>}
    IN  UNION {gather_loop(h, sps, IF d = None THEN FORWARD ELSE d, {}) : sps \in start_points}

Reverse(s) == [i \in 1..Len(s) |-> s[Len(s) + 1 - i]]

\* Mutant of flatten_loop: only the start point is tested for several parents.
RECURSIVE flatten_loop_start_only(_, _, _, _)
flatten_loop_start_only(h, sps, d, lists) ==
    IF sps = <<>> THEN {[exc |-> "none", value |-> lists]}
    ELSE UNION {IF Cardinality(h.parents[Head(sps)]) > 1
                THEN {[exc |-> "Exception", value |-> <<>>]}
                ELSE flatten_loop_start_only(h, Tail(sps), d,
                                  Append(lists, IF d # FORWARD THEN Reverse(o) ELSE o))
                : o \in depth_first_traversal_for_node(h, Head(sps),
                                                       IF d = None THEN BACKWARD ELSE d)}

\* Mutant of flatten_loop: the traversal runs in the opposite of the requested
\* direction.
RECURSIVE flatten_loop_opposite(_, _, _, _)
flatten_loop_opposite(h, sps, d, lists) ==
    IF sps = <<>> THEN {[exc |-> "none", value |-> lists]}
    ELSE UNION {IF \E i \in DOMAIN o : Cardinality(h.parents[o[i]]) > 1
                THEN {[exc |-> "Exception", value |-> <<>>]}
                ELSE flatten_loop_opposite(h, Tail(sps), d,
                                  Append(lists, IF d # FORWARD THEN Reverse(o) ELSE o))
                : o \in depth_first_traversal_for_node(h, Head(sps),
                                                       IF d = None THEN BACKWARD ELSE d * (-1))}

\* The loop of flatten_from_node over the start points <sps>: what the call
\* can end in, a raised Exception or the returned list of lists.
RECURSIVE flatten_loop(_, _, _, _)
flatten_loop(h, sps, d, lists) ==
    IF sps = <<>> THEN {[exc |-> "none", value |-> lists]}
    ELSE UNION {IF \E i \in DOMAIN o : Cardinality(h.parents[o[i]]) > 1
                THEN {[exc |-> "Exception", value |-> <<>>]}
                ELSE flatten_loop(h, Tail(sps), d,
                                  Append(lists, IF d # FORWARD THEN Reverse(o) ELSE o))
                : o \in depth_first_traversal_for_node(h, Head(sps),
                                                       IF d = None THEN BACKWARD ELSE d)}

\* helpers.flatten_from_node
flatten_from_node(h, node, d) ==
    LET start_points == IF d = None
                        THEN UNION {ListsOf(L) : L \in leaves_for_node(h, node)}
                        ELSE {<<node>>}
    IN  UNION {flatten_loop(h, sps, d, <<>>) : sps \in start_points}

----------------------------------------------------------------------------
(* clone *)

\* Whether the recursion over children from `node` never bottoms out: a node
\* reachable forward from it lies on a cycle.
RECURSIVE ForwardFrom(_, _)
ForwardFrom(h, S) ==
    LET T == S \cup UNION {h.children[x] : x \in S}
    IN  IF T = S THEN S ELSE ForwardFrom(h, T)

recursion_unbounded(h, node) ==
    \E x \in ForwardFrom(h, {node}) : x \in ForwardFrom(h, h.children[x])

\* Mutant of clone_node: the new node is given the original's children
\* instead of their clones (a shallow copy).
clone_node_shallow(h, node, r) ==
    LET made == Node_init(h, h.data[node], <<>>,
                          CHOOSE cs \in ListsOf(h.children[node]) : TRUE)
    IN  [heap |-> made.heap, node |-> made.node, of |-> (made.node :> node)]

\* treestruct.Node(node.data, children=<the clones r.nodes>), r being
\* what map(clone_subtree, node.children) left: the heap, the clones in
\* order, and `of`, which original each node made so far copies.
clone_node(h, node, r) ==
    LET made == Node_init(r.heap, r.heap.data[node], <<>>, r.nodes)
    IN  [heap |-> made.heap, node |-> made.node, of |-> (made.node :> node) @@ r.of]

\* helpers.clone_subtree on a graph where the recursion ends, and
\* map(clone_subtree, <cs>): every result the iteration orders allow.
RECURSIVE clone_subtree(_, _)
RECURSIVE clone_map(_, _, _)
clone_subtree(h, node) ==
    UNION {{clone_node(h, node, r) : r \in clone_map(h, cs, [heap |-> h, nodes |-> <<>>, of |-> <<>>])}
           : cs \in ListsOf(h.children[node])}

clone_map(h, cs, acc) ==
    IF cs = <<>> THEN {acc}
    ELSE UNION {clone_map(h, Tail(cs),
                          [heap |-> c.heap, nodes |-> Append(acc.nodes, c.node), of |-> c.of @@ acc.of])
                : c \in clone_subtree(acc.heap, Head(cs))}

----------------------------------------------------------------------------
(* to_dict / from_dict, with the default (identity) data_converter *)

\* _convert(n, converter) and [_convert(c, converter) for c in <cs>] on a
\* graph where the recursion ends: the dicts the iteration orders allow.
RECURSIVE convert(_, _)
RECURSIVE convert_all(_, _)
convert(h, n) ==
    UNION {{[data |-> h.data[n], children |-> ds] : ds \in convert_all(h, cs)}
           : cs \in ListsOf(h.children[n])}

convert_all(h, cs) ==
    IF cs = <<>> THEN {<<>>}
    ELSE UNION {{<<dct>> \o ds : ds \in convert_all(h, Tail(cs))} : dct \in convert(h, Head(cs))}

\* helpers.to_dict_from_node: the lists it can return, or RuntimeError when
\* the recursion from one of the roots never ends.
to_dict_from_node(h, node) ==
    LET roots == UNION {IF R = {} THEN {<<node>>} ELSE ListsOf(R) : R \in roots_for_node(h, node)}
    IN  UNION {IF \E i \in DOMAIN rs : recursion_unbounded(h, rs[i])
               THEN {[exc |-> "RuntimeError", value |-> <<>>]}
               ELSE {[exc |-> "none", value |-> ds] : ds \in convert_all(h, rs)}
               : rs \in roots}

\* Mutant of build_children: each built child is added to the parents of the
\* new node instead of its children.
RECURSIVE build_tree_upside_down(_, _)
RECURSIVE build_children_as_parents(_, _, _)
build_tree_upside_down(h, struct) ==
    LET made == Node_init(h, struct.data, <<>>, <<>>)
    IN  [heap |-> build_children_as_parents(made.heap, made.node, struct.children),
         node |-> made.node]

build_children_as_parents(h, node, structs) ==
    IF structs = <<>> THEN h
    ELSE LET child == build_tree_upside_down(h, Head(structs))
         IN  build_children_as_parents(add(child.heap, node, BACKWARD, child.node), node, Tail(structs))

\* from_dict._build_tree, and its loop
\* for child_struct in <structs>: node.children.add(_build_tree(child_struct))
RECURSIVE build_tree(_, _)
RECURSIVE build_children(_, _, _)
build_tree(h, struct) ==
    LET made == Node_init(h, struct.data, <<>>, <<>>)
    IN  [heap |-> build_children(made.heap, made.node, struct.children), node |-> made.node]

build_children(h, node, structs) ==
    IF structs = <<>> THEN h
    ELSE LET child == build_tree(h, Head(structs))
         IN  build_children(add(child.heap, node, FORWARD, child.node), node, Tail(structs))

\* helpers.from_dict
from_dict(h, tree_dict) == build_tree(h, tree_dict)

----------------------------------------------------------------------------
(* State *)

\* The position of a traversal call: `struct` is the stack / queue, `calls`
\* the callback invocations so far, `obj` the accumulator (each callback that
\* gets to its effect appends its arguments), `raised` whether and when a
\* callback raised StopIteration, `error` the exception that reached the
\* caller, `cancel` whether the callback is one that may raise.
Idle ==
    [pc |-> "idle", fn |-> "none", pop_idx |-> 0, direction |-> 0, start |-> 0,
     struct |-> <<>>, visited |-> {}, calls |-> <<>>, obj |-> <<>>,
     raised |-> "none", error |-> "none", cancel |-> FALSE]

SetHeap(h) ==
    /\ parents' = h.parents
    /\ children' = h.children
    /\ data' = h.data

\* No node exists yet.
Init ==
    /\ parents = <<>>
    /\ children = <<>>
    /\ data = <<>>
    /\ last = <<"init", 0, 0>>
    /\ run = Idle
    /\ result = <<>>

\* Node(data, parents=ps, children=cs)
Construct(dta, ps, cs) ==
    /\ Len(data) < MaxNodes
    /\ Len(ps) + Len(cs) <= MaxArgs
    /\ LET r == Node_init(Heap, dta, ps, cs)
       IN  /\ EdgeCount(r.heap) <= MaxEdges
           /\ SetHeap(r.heap)
    /\ last' = <<"mutate", 0, 0>>
    /\ UNCHANGED <<run, result>>

\* owner.parents.add(value) / owner.children.add(value)
Add(owner, d, value) ==
    /\ LET h == add(Heap, owner, d, value)
       IN  /\ EdgeCount(h) <= MaxEdges
           /\ SetHeap(h)
    /\ last' = <<"mutate", 0, 0>>
    /\ UNCHANGED <<run, result>>

\* owner.parents.discard(value) / owner.children.discard(value)
Discard(owner, d, value) ==
    /\ SetHeap(discard(Heap, owner, d, value))
    /\ last' = <<"mutate", 0, 0>>
    /\ UNCHANGED <<run, result>>

\* owner.parents.update(s) / owner.children.update(s)
Update(owner, d, s) ==
    /\ LET h == update(Heap, owner, d, s)
       IN  /\ EdgeCount(h) <= MaxEdges
           /\ SetHeap(h)
    /\ last' = <<"mutate", 0, 0>>
    /\ UNCHANGED <<run, result>>

\* owner.parents.discard_many(s) / owner.children.discard_many(s)
DiscardMany(owner, d, s) ==
    /\ SetHeap(discard_many(Heap, owner, d, s))
    /\ last' = <<"mutate", 0, 0>>
    /\ UNCHANGED <<run, result>>

\* node.delete(direction)
Delete(node, d) ==
    /\ \E h \in delete_node_relationships(Heap, node, d) : SetHeap(h)
    /\ last' = <<"delete", node, d>>
    /\ UNCHANGED <<run, result>>

Next ==
    \/ \E dta \in {"p"}, ps \in ArgLists(Nodes), cs \in ArgLists(Nodes) : Construct(dta, ps, cs)
    \/ \E owner \in Nodes, d \in Directions, value \in Nodes : Add(owner, d, value)
    \/ \E owner \in Nodes, d \in Directions, value \in Nodes : Discard(owner, d, value)
    \/ \E owner \in Nodes, d \in Directions, s \in ArgLists(Nodes) : Update(owner, d, s)
    \/ \E owner \in Nodes, d \in Directions, s \in ArgLists(Nodes) : DiscardMany(owner, d, s)
    \/ \E node \in Nodes, d \in {None, FORWARD, BACKWARD} : Delete(node, d)

Spec == Init /\ [][Next]_vars

----------------------------------------------------------------------------
(* Traversals over an existing graph *)

\* The children sets of every graph on MaxNodes nodes with at most GraphEdges
\* edges; parents are the reciprocal sets, as the NodeSets keep them.
Graphs ==
    {c \in [1..MaxNodes -> SUBSET (1..MaxNodes)] : SumCard(c, 1..MaxNodes) <= GraphEdges}

ParentsOf(c) == [n \in DOMAIN c |-> {m \in DOMAIN c : n \in c[m]}]

InitGraph(payloads) ==
    /\ \E c \in Graphs :
          /\ children = c
          /\ parents = ParentsOf(c)
    /\ data \in [1..MaxNodes -> payloads]
    /\ last = <<"init", 0, 0>>
    /\ run = Idle
    /\ result = <<>>

InitTrav == InitGraph({"p"})

\* node.depth_first_traversal(cb, d, obj) / node.breadth_first_traversal(cb, d, obj)
StartTraverse(node, pop_idx, d) ==
    /\ run.pc = "idle"
    /\ run' = start_run("traverse", node, pop_idx, d, TRUE)
    /\ UNCHANGED <<parents, children, data, last, result>>

TraverseIter ==
    /\ run.pc = "run" /\ run.fn = "traverse" /\ run.struct # <<>>
    /\ run' \in traverse_iter(Heap, run)
    /\ UNCHANGED <<parents, children, data, last, result>>

\* node.walk_links(cb, d, obj)
StartWalk(node, d) ==
    /\ run.pc = "idle"
    /\ run' = start_run("walk", node, 0, d, TRUE)
    /\ UNCHANGED <<parents, children, data, last, result>>

WalkIter ==
    /\ run.pc = "run" /\ run.fn = "walk" /\ run.struct # <<>>
    /\ run' \in walk_links_iter(Heap, run)
    /\ UNCHANGED <<parents, children, data, last, result>>

LoopExit ==
    /\ run.pc = "run" /\ run.struct = <<>>
    /\ run' = loop_exit(run)
    /\ UNCHANGED <<parents, children, data, last, result>>

NextTrav ==
    \/ \E node \in Nodes, pop_idx \in {-1, 0}, d \in Directions : StartTraverse(node, pop_idx, d)
    \/ TraverseIter
    \/ \E node \in Nodes, d \in Directions : StartWalk(node, d)
    \/ WalkIter
    \/ LoopExit

SpecTrav == InitTrav /\ [][NextTrav]_vars

----------------------------------------------------------------------------
(* Queries over a graph linked up from QueryNodes fresh nodes *)

InitQuery ==
    /\ parents = [n \in 1..QueryNodes |-> {}]
    /\ children = [n \in 1..QueryNodes |-> {}]
    /\ data = [n \in 1..QueryNodes |-> "p"]
    /\ last = <<"init", 0, 0>>
    /\ run = Idle
    /\ result = <<>>

\* owner.children.add(value) / owner.parents.add(value), before the query.
Link(owner, d, value, max_edges) ==
    /\ last[1] \in {"init", "link"}
    /\ LET h == add(Heap, owner, d, value)
       IN  /\ EdgeCount(h) <= max_edges
           /\ SetHeap(h)
    /\ last' = <<"link", 0, 0>>
    /\ UNCHANGED <<run, result>>

\* node.flatten(direction)
Flatten(node, d) ==
    /\ last[1] \in {"init", "link"}
    /\ result' \in flatten_from_node(Heap, node, d)
    /\ last' = <<"flatten", node, d>>
    /\ UNCHANGED <<parents, children, data, run>>

\* node.gather_nodes(direction)
GatherNodes(node, d) ==
    /\ last[1] \in {"init", "link"}
    /\ \E g \in gather_nodes(Heap, node, d) : result' = [exc |-> "none", value |-> g]
    /\ last' = <<"gather_nodes", node, d>>
    /\ UNCHANGED <<parents, children, data, run>>

NextFlatten ==
    \/ \E owner \in Nodes, d \in Directions, value \in Nodes : Link(owner, d, value, QueryEdges)
    \/ \E node \in Nodes, d \in {None, FORWARD, BACKWARD} : Flatten(node, d)

SpecFlatten == InitQuery /\ [][NextFlatten]_vars

NextGather ==
    \/ \E owner \in Nodes, d \in Directions, value \in Nodes : Link(owner, d, value, QueryEdges)
    \/ \E node \in Nodes, d \in {None, FORWARD, BACKWARD} : GatherNodes(node, d)

SpecGather == InitQuery /\ [][NextGather]_vars

----------------------------------------------------------------------------
(* clone, to_dict and from_dict on a graph linked up from CopyNodes fresh nodes *)

InitCopy ==
    /\ parents = [n \in 1..CopyNodes |-> {}]
    /\ children = [n \in 1..CopyNodes |-> {}]
    /\ data = [n \in 1..CopyNodes |-> IF n % 2 = 1 THEN "p" ELSE "q"]
    /\ last = <<"init", 0, 0>>
    /\ run = Idle
    /\ result = <<>>

\* node.clone().  A graph whose recursion never ends exhausts the interpreter's
\* stack before any node is linked: RuntimeError, the graph as it was.
\* `before` and `of` are kept for the properties: the heap at the call and
\* the original each new node copies.
Clone(node) ==
    /\ last[1] \in {"init", "link"}
    /\ IF recursion_unbounded(Heap, node)
       THEN /\ result' = [exc |-> "RuntimeError", value |-> 0, before |-> Heap, of |-> <<>>]
            /\ UNCHANGED <<parents, children, data>>
       ELSE \E c \in clone_subtree(Heap, node) :
                /\ SetHeap(c.heap)
                /\ result' = [exc |-> "none", value |-> c.node, before |-> Heap, of |-> c.of]
    /\ last' = <<"clone", node, 0>>
    /\ UNCHANGED run

Made == IF last[1] \in {"clone", "edit"} THEN Nodes \ DOMAIN result.before.data ELSE {}

\* After clone: owner.children.add(value) / owner.parents.add(value) between
\* two nodes of the clone.
CloneAdd(owner, d, value) ==
    /\ last[1] = "clone"
    /\ owner \in Made /\ value \in Made
    /\ SetHeap(add(Heap, owner, d, value))
    /\ last' = <<"edit", last[2], 0>>
    /\ UNCHANGED <<run, result>>

\* After clone: owner.children.discard(value) / owner.parents.discard(value)
\* on a node of the clone, for any node value.
CloneDiscard(owner, d, value) ==
    /\ last[1] = "clone"
    /\ owner \in Made
    /\ SetHeap(discard(Heap, owner, d, value))
    /\ last' = <<"edit", last[2], 0>>
    /\ UNCHANGED <<run, result>>

NextClone ==
    \/ \E owner \in Nodes, d \in Directions, value \in Nodes : Link(owner, d, value, CopyEdges)
    \/ \E node \in Nodes : Clone(node)
    \/ \E owner \in Nodes, d \in Directions, value \in Nodes : CloneAdd(owner, d, value)
    \/ \E owner \in Nodes, d \in Directions, value \in Nodes : CloneDiscard(owner, d, value)

SpecClone == InitCopy /\ [][NextClone]_vars

\* node.to_dict()
ToDict(node) ==
    /\ last[1] \in {"init", "link"}
    /\ result' \in to_dict_from_node(Heap, node)
    /\ last' = <<"to_dict", node, 0>>
    /\ UNCHANGED <<parents, children, data, run>>

\* Node.from_dict(d[0]) on the list d that to_dict returned.  `before` and
\* `dict` are kept for the properties.
FromDict ==
    /\ last[1] = "to_dict" /\ result.exc = "none" /\ Len(result.value) >= 1
    /\ LET built == from_dict(Heap, result.value[1])
       IN  /\ SetHeap(built.heap)
           /\ result' = [exc |-> "none", value |-> built.node, before |-> Heap,
                         dict |-> result.value[1]]
    /\ last' = <<"from_dict", last[2], 0>>
    /\ UNCHANGED run

NextDict ==
    \/ \E owner \in Nodes, d \in Directions, value \in Nodes : Link(owner, d, value, CopyEdges)
    \/ \E node \in Nodes : ToDict(node)
    \/ FromDict

SpecDict == InitCopy /\ [][NextDict]_vars

\* The nodes reachable from the nodes of S along direction d (S included).
RECURSIVE ReachFrom(_, _, _)
ReachFrom(h, S, d) ==
    LET T == S \cup UNION {direction(h, x, d) : x \in S}
    IN  IF T = S THEN S ELSE ReachFrom(h, T, d)

Reach(h, n, d) == ReachFrom(h, {n}, d)

NoDup(s) == \A i, j \in DOMAIN s : s[i] = s[j] => i = j

\* A natural number bounding the loop iterations a running traversal has left:
\* the entries still on the stack / queue, plus, for every node not yet
\* visited, its own visit and the entries that visit will push.
RECURSIVE Unvisited(_)
Unvisited(S) ==
    IF S = {} THEN 0
    ELSE LET n == CHOOSE x \in S : TRUE
         IN  1 + Cardinality(direction(Heap, n, run.direction)) + Unvisited(S \ {n})

Measure == Len(run.struct) + Unvisited(Nodes \ run.visited)

----------------------------------------------------------------------------
(* C1: bidirectional consistency.  After every step of any sequence of Node
   constructions, add, discard, update, discard_many and delete calls, B is
   in A.children if and only if A is in B.parents. *)
C1_Bidirectional ==
    \A a \in Nodes, b \in Nodes : (b \in children[a]) <=> (a \in parents[b])

\* A state with a self-link and a node with two parents, reached by mutation.
C1_Witness ==
    /\ last[1] = "mutate"
    /\ \E a \in Nodes : a \in children[a]
    /\ \E b \in Nodes : Cardinality(parents[b]) >= 2

(* C3: delete isolation.  After node.delete() with no direction, the node's
   parents and children are empty and no node's parents or children set
   contains it. *)
C3_DeleteIsolation ==
    (last[1] = "delete" /\ last[3] = None) =>
        /\ parents[last[2]] = {}
        /\ children[last[2]] = {}
        /\ \A m \in Nodes : last[2] \notin parents[m] /\ last[2] \notin children[m]

\* delete() has just isolated a node while other edges remain.
C3_Witness ==
    /\ last[1] = "delete" /\ last[3] = None
    /\ parents[last[2]] = {} /\ children[last[2]] = {}
    /\ \E m \in Nodes : children[m] # {}

(* C2: cycle safety and single visit.  On any graph (cycles, self-links,
   converging paths) a depth-first or breadth-first traversal terminates, and
   its callback runs exactly once for the start node and every node reachable
   in the direction, and for no other node. *)
C2_TraverseOk ==
    (run.fn = "traverse") =>
        /\ NoDup(run.calls)
        /\ Range(run.calls) \subseteq Reach(Heap, run.start, run.direction)
        /\ (run.pc = "done" /\ run.raised = "none") =>
               Range(run.calls) = Reach(Heap, run.start, run.direction)

\* Termination: while the loop runs, each step either returns or strictly
\* decreases Measure, and a running loop can always take a step.
C2_CycleSafety ==
    /\ [](C2_TraverseOk)
    /\ []((run.pc = "run" /\ run.fn = "traverse") => ENABLED (TraverseIter \/ LoopExit))
    /\ [][(run.pc = "run" /\ run.fn = "traverse")
            => (run'.pc = "done" \/ Measure' < Measure)]_vars

\* A completed traversal of a graph with a cycle and a node reached twice.
C2_Witness ==
    /\ run.pc = "done" /\ run.fn = "traverse" /\ run.raised = "none"
    /\ Len(run.calls) = 3
    /\ \E a, b \in Nodes : a # b /\ b \in direction(Heap, a, run.direction)
                                 /\ a \in direction(Heap, b, run.direction)
    /\ \E c \in Nodes : Cardinality(direction(Heap, c, run.direction * (-1))) >= 2

\* The pairs (n, m) with n reachable from the start in direction d and m in
\* n's direction-d set.
LinksFrom(h, n, d) ==
    UNION {{<<x, m>> : m \in direction(h, x, d)} : x \in Reach(h, n, d)}

(* C9: edge walk.  On any graph walk_links terminates, and invokes
   callback(n, m, obj) exactly once for every pair (n, m) with n the start
   node or reachable from it in the direction and m in n's set in that
   direction, and for no other pair. *)
C9_WalkOk ==
    (run.fn = "walk") =>
        /\ NoDup(run.calls)
        /\ Range(run.calls) \subseteq LinksFrom(Heap, run.start, run.direction)
        /\ (run.pc = "done" /\ run.raised = "none") =>
               Range(run.calls) = LinksFrom(Heap, run.start, run.direction)

C9_EdgeWalk ==
    /\ [](C9_WalkOk)
    /\ []((run.pc = "run" /\ run.fn = "walk") => ENABLED (WalkIter \/ LoopExit))
    /\ [][(run.pc = "run" /\ run.fn = "walk")
            => (run'.pc = "done" \/ Measure' < Measure)]_vars

\* A completed walk over a cycle with a self-link: four links, each seen once.
C9_Witness ==
    /\ run.pc = "done" /\ run.fn = "walk" /\ run.raised = "none"
    /\ Len(run.calls) = 4
    /\ \E a \in Nodes : <<a, a>> \in Range(run.calls)
    /\ \E a, b \in Nodes : a # b /\ <<a, b>> \in Range(run.calls) /\ <<b, a>> \in Range(run.calls)

Front(s) == SubSeq(s, 1, Len(s) - 1)

(* C10: early termination.  When a callback raises StopIteration in its k-th
   invocation, the traversal has stopped: the call has returned, no error
   reached the caller, no callback ran after the k-th, and the accumulator
   holds the effects of the first k-1 callbacks and whatever the k-th applied
   before raising. *)
C10_EarlyTermination ==
    (run.raised # "none") =>
        /\ run.pc = "done"
        /\ run.error = "none"
        /\ run.obj = IF run.raised = "stop_after" THEN run.calls ELSE Front(run.calls)

\* A walk cancelled in its second callback, with links left unwalked.
C10_Witness ==
    /\ run.fn = "walk" /\ run.raised = "stop_before" /\ run.pc = "done"
    /\ Len(run.calls) = 2 /\ Len(run.obj) = 1
    /\ Cardinality(LinksFrom(Heap, run.start, run.direction)) > 2

\* The nodes flatten(node, d) collects: for each start point, the nodes its
\* depth-first traversal visits.
Collected(h, node, d) ==
    IF d = None
    THEN UNION {Reach(h, l, BACKWARD) : l \in {x \in Reach(h, node, FORWARD) : h.children[x] = {}}}
    ELSE Reach(h, node, d)

(* C6: flatten precondition.  flatten(node, direction) raises the
   multi-parent error whenever a node collected into one of its sequences has
   more than one parent, and never returns a sequence holding such a node. *)
C6_FlattenPrecondition ==
    (last[1] = "flatten") =>
        /\ (\E n \in Collected(Heap, last[2], last[3]) : Cardinality(parents[n]) > 1)
               => result.exc = "Exception"
        /\ result.exc = "none" =>
               \A i \in DOMAIN result.value : \A j \in DOMAIN result.value[i] :
                   Cardinality(parents[result.value[i][j]]) <= 1

\* flatten(D) has raised on the diamond: A and D each a parent of B and of C.
C6_Witness ==
    /\ last[1] = "flatten" /\ last[3] = None
    /\ result.exc = "Exception"
    /\ \E a, b, c \in Nodes \ {last[2]} :
          /\ Cardinality({a, b, c}) = 3
          /\ children[a] = {b, c} /\ children[last[2]] = {b, c}
          /\ parents[b] = {a, last[2]} /\ parents[c] = {a, last[2]}

\* The connected structure containing n: the nodes linked to n by a chain of
\* parent / child edges.
RECURSIVE ConnectedFrom(_, _)
ConnectedFrom(h, S) ==
    LET T == S \cup UNION {h.parents[x] \cup h.children[x] : x \in S}
    IN  IF T = S THEN S ELSE ConnectedFrom(h, T)

(* C7: gather_nodes(node) with no direction returns every node of the
   connected structure containing node, on any graph (several parents and
   cycles included). *)
C7_GatherConnected ==
    (last[1] = "gather_nodes" /\ last[3] = None) =>
        result.value = ConnectedFrom(Heap, {last[2]})

(* C4: clone independence.  On an acyclic graph clone(node) leaves the
   parents and children of every original node unchanged; every node of the
   result is new and carries the payload of the node it copies; no edge links
   a new node to an original one; and an add or discard on the clone's sets
   afterwards leaves the original sets unchanged. *)
C4_CloneIndependence ==
    (last[1] \in {"clone", "edit"} /\ result.exc = "none") =>
        LET before == result.before
            orig   == DOMAIN before.data
        IN  /\ \A n \in orig : /\ parents[n] = before.parents[n]
                               /\ children[n] = before.children[n]
                               /\ data[n] = before.data[n]
            /\ result.value \in Made
            /\ DOMAIN result.of = Made
            /\ \A c \in Made : /\ result.of[c] \in orig
                               /\ data[c] = before.data[result.of[c]]
                               /\ parents[c] \subseteq Made
                               /\ children[c] \subseteq Made

\* A clone of a node with a multi-parent descendant, edited afterwards.
C4_Witness ==
    /\ last[1] = "edit" /\ result.exc = "none"
    /\ Cardinality(Made) >= 3
    /\ \E n \in DOMAIN result.before.data : Cardinality(result.before.parents[n]) >= 2
    /\ \E c \in Made : children[c] # {} /\ parents[c] # {}
    /\ \E c \in Made : data[c] = "p"
    /\ \E c \in Made : data[c] = "q"

(* C8: clone structural identity.  On an acyclic graph, nodes with several
   parents included, there is a one-to-one correspondence between the
   originals reachable forward from node and the nodes reachable forward from
   the clone root that preserves payloads and child edges, and the clone root
   has no parents. *)
C8_CloneStructure ==
    (last[1] = "clone" /\ result.exc = "none") =>
        LET before == result.before
            O == ForwardFrom(before, {last[2]})
            K == ForwardFrom(Heap, {result.value})
        IN  /\ parents[result.value] = {}
            /\ \E f \in [K -> O] :
                  /\ f[result.value] = last[2]
                  /\ \A o \in O : \E k \in K : f[k] = o
                  /\ \A k1, k2 \in K : f[k1] = f[k2] => k1 = k2
                  /\ \A k \in K : /\ data[k] = before.data[f[k]]
                                  /\ {f[c] : c \in children[k]} = before.children[f[k]]

\* The connected structure of n is a tree: no node of it has more than one
\* parent and none lies on a cycle.
IsTree(h, n) ==
    \A x \in ConnectedFrom(h, {n}) :
        /\ Cardinality(h.parents[x]) <= 1
        /\ x \notin ForwardFrom(h, h.children[x])

\* Same payload at a and b, and the children of a and of b pair up one to one
\* with the same property (children compared as unordered sets).
RECURSIVE SameShape(_, _, _, _)
SameShape(h1, a, h2, b) ==
    /\ h1.data[a] = h2.data[b]
    /\ \E f \in [h1.children[a] -> h2.children[b]] :
          /\ \A y \in h2.children[b] : \E x \in h1.children[a] : f[x] = y
          /\ \A x1, x2 \in h1.children[a] : f[x1] = f[x2] => x1 = x2
          /\ \A x \in h1.children[a] : SameShape(h1, x, h2, f[x])

(* C5: round-trip serialization.  For a tree T with no multi-parent node and
   any node n of T, from_dict(to_dict(n)[0]) returns the root of a tree of new
   nodes with the shape of T and the same payload at every position. *)
C5_RoundTrip ==
    (last[1] = "from_dict" /\ IsTree(result.before, last[2])) =>
        LET before == result.before
            orig   == DOMAIN before.data
            T      == ConnectedFrom(before, {last[2]})
            root   == CHOOSE x \in T : before.parents[x] = {}
            K      == ConnectedFrom(Heap, {result.value})
        IN  /\ \A n \in orig : parents[n] = before.parents[n] /\ children[n] = before.children[n]
            /\ K \cap orig = {}
            /\ K = ForwardFrom(Heap, {result.value})
            /\ parents[result.value] = {}
            /\ Cardinality(K) = Cardinality(T)
            /\ SameShape(before, root, Heap, result.value)

\* A three-node tree with two payloads, serialized from a non-root node and
\* rebuilt.
C5_Witness ==
    /\ last[1] = "from_dict" /\ IsTree(result.before, last[2])
    /\ Cardinality(ConnectedFrom(result.before, {last[2]})) = 3
    /\ result.before.parents[last[2]] # {}
    /\ Cardinality(ForwardFrom(Heap, {result.value})) = 3
    /\ \E c \in children[result.value] : data[c] # data[result.value]

\* The start points of flatten(node, d): node's leaves when no direction is
\* given, node itself otherwise.
StartPoints(h, node, d) ==
    IF d = None THEN {x \in Reach(h, node, FORWARD) : h.children[x] = {}} ELSE {node}

\* `lists` holds one sequence per start point of flatten(node, d), each the
\* visit order of a depth-first traversal from its start point in direction
\* `toward`, reversed unless d is FORWARD.
OnePathPerStart(h, node, d, toward, lists) ==
    \E sps \in ListsOf(StartPoints(h, node, d)) :
        /\ Len(lists) = Len(sps)
        /\ \A i \in DOMAIN lists :
              LET order == IF d # FORWARD THEN Reverse(lists[i]) ELSE lists[i]
              IN  /\ order \in depth_first_traversal_for_node(h, sps[i], toward)
                  /\ order[1] = sps[i]
                  /\ NoDup(order)
                  /\ Range(order) = Reach(h, sps[i], toward)

(* C11 as stated: flatten(node, direction) produces one sequence per start
   point, each the visit order of a depth-first traversal from the start point
   in the opposite of the requested direction (unspecified: backward),
   reversed unless the requested direction is forward. *)
C11_FlattenOpposite ==
    (last[1] = "flatten" /\ result.exc = "none") =>
        OnePathPerStart(Heap, last[2], last[3],
                        IF last[3] = None THEN BACKWARD ELSE last[3] * (-1), result.value)

(* C11 amended: flatten(node, direction) produces one sequence per start
   point, each the visit order of a depth-first traversal from the start point
   in the requested direction itself (unspecified: backward, leaf to root),
   reversed unless the requested direction is forward. *)
C11_FlattenDirection ==
    (last[1] = "flatten" /\ result.exc = "none") =>
        OnePathPerStart(Heap, last[2], last[3],
                        IF last[3] = None THEN BACKWARD ELSE last[3], result.value)

\* flatten(node, BACKWARD) has returned the three-node path from the root
\* down to node.
C11_Witness ==
    /\ last[1] = "flatten" /\ last[3] = BACKWARD /\ result.exc = "none"
    /\ Len(result.value) = 1 /\ Len(result.value[1]) = 3
    /\ result.value[1][3] = last[2]
    /\ parents[result.value[1][1]] = {}
====
